---- MODULE Spec2Model ----
(***************************************************************************)
(* The /5/manifest handler of src/dangerous_open_internet.rs: content-type *)
(* dispatch, the three format adapters (parse_toml, parse_yaml,            *)
(* parse_json), the shared parse_manifest pipeline, the RawValue ->        *)
(* ValidToy conversions and the response mapping.                          *)
(*                                                                         *)
(* A request body is modelled as the format whose grammar the text         *)
(* satisfies ("toml", "yaml", "json", or "none") together with the         *)
(* document tree the text denotes.  Integers are written in the document   *)
(* as signed decimal literals (sign, magnitude) and become two's           *)
(* complement 64-bit values when parsed; 64-bit values are four 16-bit     *)
(* limbs, least significant first.                                         *)
(***************************************************************************)
EXTENDS Integers, Sequences, FiniteSets, TLC

VARIABLES pc, req, raw, toml_string, manifest, resp, steps, conv, cross

vars == <<pc, req, raw, toml_string, manifest, resp, steps, conv, cross>>

(***************************************************************************)
(* Bounds of the model.                                                    *)
(***************************************************************************)
MaxOrders == 2

(***************************************************************************)
(* 64-bit and 32-bit integers as 16-bit limbs.                             *)
(***************************************************************************)
Base == 2^16

IsZero(n) == \A i \in 1..Len(n) : n[i] = 0

\* n + 1 modulo Base^Len(n)
RECURSIVE AddOne(_)
AddOne(n) ==
    IF n = <<>> THEN <<>>
    ELSE IF Head(n) + 1 < Base THEN <<Head(n) + 1>> \o Tail(n)
    ELSE <<0>> \o AddOne(Tail(n))

\* -n modulo Base^Len(n): complement every limb, add one
Negate(n) == AddOne([i \in 1..Len(n) |-> (Base - 1) - n[i]])

\* the i64 a decimal literal denotes (str::parse::<i64> of the lexer)
ParseI64(neg, mag) == IF neg THEN Negate(mag) ELSE mag

\* the signed decimal literal of an i64 (how an integer is printed)
I64Neg(v) == v[4] >= Base \div 2
I64Mag(v) == IF I64Neg(v) THEN Negate(v) ELSE v

\* `x as u32` for x: i64 keeps the low 32 bits
AsU32Clamp(v) == IF I64Neg(v) THEN <<0, 0>>
                 ELSE IF v[3] # 0 \/ v[4] # 0 THEN <<Base - 1, Base - 1>>
                 ELSE <<v[1], v[2]>>
AsU32(v) == <<v[1], v[2]>>

\* quotient and remainder of a u32 by ten
U32Div10(n) ==
    LET r1 == n[2] % 10
        lo == r1 * Base + n[1]
    IN  <<lo \div 10, n[2] \div 10>>
U32Mod10(n) == ((n[2] % 10) * Base + n[1]) % 10

Digit(d) == <<"0", "1", "2", "3", "4", "5", "6", "7", "8", "9">>[d + 1]

\* u32 as Display prints it
RECURSIVE U32Digits(_)
U32Digits(n) == IF IsZero(n) THEN "" ELSE U32Digits(U32Div10(n)) \o Digit(U32Mod10(n))
U32ToString(n) == IF IsZero(n) THEN "0" ELSE U32Digits(n)

(***************************************************************************)
(* Values.  A field value of the document is a record [k, s, neg, mag]:    *)
(* k is its kind, s its text when a string, (neg, mag) its literal when an *)
(* integer.  Once parsed it is [k, s, v] with v the i64.  An order entry   *)
(* is [k, item, quantity]: a table/mapping with its two fields, or a       *)
(* non-table value of kind k.                                              *)
(***************************************************************************)
Zero4 == <<0, 0, 0, 0>>

LitMissing == [k |-> "missing", s |-> "", neg |-> FALSE, mag |-> Zero4]
LitNull == [k |-> "null", s |-> "", neg |-> FALSE, mag |-> Zero4]
LitFloat == [k |-> "float", s |-> "", neg |-> FALSE, mag |-> Zero4]
LitBool == [k |-> "bool", s |-> "", neg |-> FALSE, mag |-> Zero4]
LitStr(s) == [k |-> "str", s |-> s, neg |-> FALSE, mag |-> Zero4]
LitInt(neg, mag) == [k |-> "int", s |-> "", neg |-> neg, mag |-> mag]

LitTable(item, quantity) == [k |-> "table", item |-> item, quantity |-> quantity]
LitScalar(k) == [k |-> k, item |-> LitMissing, quantity |-> LitMissing]

ValNull == [k |-> "null", s |-> "", v |-> Zero4]

\* the format's parser on one field value / one order entry
ParseValue(l) == [k |-> l.k, s |-> l.s, v |-> IF l.k = "int" THEN ParseI64(l.neg, l.mag) ELSE Zero4]
ParseEntry(e) == [k |-> e.k, item |-> ParseValue(e.item), quantity |-> ParseValue(e.quantity)]

\* the TOML serializer on one field value / one order entry
PrintValue(p) == [k |-> p.k, s |-> p.s,
                  neg |-> IF p.k = "int" THEN I64Neg(p.v) ELSE FALSE,
                  mag |-> IF p.k = "int" THEN I64Mag(p.v) ELSE Zero4]
PrintEntry(e) == [k |-> e.k, item |-> PrintValue(e.item), quantity |-> PrintValue(e.quantity)]

(***************************************************************************)
(* ValidToy and the three conversions into it.                             *)
(***************************************************************************)
ToyErr == [ok |-> FALSE, toy |-> [item |-> "", quantity |-> <<0, 0>>]]
ToyOk(item, quantity) == [ok |-> TRUE, toy |-> [item |-> item, quantity |-> quantity]]

\* impl TryFrom<Table> for ValidToy
TryFromTable(value) ==
    IF value.quantity.k # "int" THEN ToyErr
    ELSE IF value.item.k # "str" THEN ToyErr
    ELSE ToyOk(value.item.s, AsU32(value.quantity.v))

\* value["key"] of serde_yaml::Value / serde_json::Value: Null unless value is
\* a mapping that has the key
IndexValue(value, key) ==
    IF value.k # "table" THEN ValNull
    ELSE IF value[key].k = "missing" THEN ValNull
    ELSE value[key]

AsStr(p) == [some |-> p.k = "str", v |-> p.s]
AsI64(p) == [some |-> p.k = "int", v |-> p.v]

\* impl TryFrom<serde_yaml::Value> for ValidToy
TryFromYaml(value) ==
    LET item == AsStr(IndexValue(value, "item"))
        quantity == AsI64(IndexValue(value, "quantity"))
    IN  IF ~item.some THEN ToyErr
        ELSE IF ~quantity.some THEN ToyErr
        ELSE ToyOk(item.v, AsU32(quantity.v))

\* impl TryFrom<serde_json::Value> for ValidToy
TryFromJson(value) ==
    LET item == AsStr(IndexValue(value, "item"))
        quantity == AsI64(IndexValue(value, "quantity"))
    IN  IF ~item.some THEN ToyErr
        ELSE IF ~quantity.some THEN ToyErr
        ELSE ToyOk(item.v, AsU32(quantity.v))

\* ValidToy::try_from(o) for the T of Manifest<T>
TryFrom(fmt, o) ==
    CASE fmt = "toml" -> TryFromTable(o)
      [] fmt = "yaml" -> TryFromYaml(o)
      [] fmt = "json" -> TryFromJson(o)

\* impl Display for ValidToy
DisplayItemOnly(toy) == toy.item
Display(toy) == toy.item \o ": " \o U32ToString(toy.quantity)

(***************************************************************************)
(* Manifest<T>, ManifestParseError and parse_manifest.                     *)
(***************************************************************************)
MagicKeyword == "Christmas 2024"

Contains(seq, x) == \E i \in 1..Len(seq) : seq[i] = x

\* orders.into_iter().filter_map(|o| ValidToy::try_from(o).ok())
RECURSIVE FilterMap(_, _)
FilterMap(fmt, orders) ==
    IF orders = <<>> THEN <<>>
    ELSE LET r == TryFrom(fmt, Head(orders))
         IN  (IF r.ok THEN <<r.toy>> ELSE <<>>) \o FilterMap(fmt, Tail(orders))

\* .map(|t| t.to_string())
MapToString(toys) == [i \in 1..Len(toys) |-> Display(toys[i])]

\* Vec<String>::join(sep)
RECURSIVE Join(_, _)
Join(lines, sep) ==
    IF lines = <<>> THEN ""
    ELSE IF Len(lines) = 1 THEN lines[1]
    ELSE lines[1] \o sep \o Join(Tail(lines), sep)

Err(kind) == [ok |-> FALSE, err |-> kind, text |-> ""]
Ok(text) == [ok |-> TRUE, err |-> "", text |-> text]

parse_manifest_orders_first(fmt, m) ==
    IF ~m.package.metadata.some THEN Err("MissingOrders")
    ELSE IF ~m.package.metadata.v.orders.some THEN Err("MissingOrders")
    ELSE IF ~m.package.keywords.some \/ ~Contains(m.package.keywords.v, MagicKeyword)
         THEN Err("MissingMagicKeyword")
    ELSE LET toys == Join(MapToString(FilterMap(fmt, m.package.metadata.v.orders.v)), "\n")
         IN  IF toys = "" THEN Err("MissingOrders") ELSE Ok(toys)

parse_manifest_short_circuit(fmt, m) ==
    IF ~m.package.keywords.some \/ ~Contains(m.package.keywords.v, MagicKeyword)
    THEN Err("MissingMagicKeyword")
    ELSE IF ~m.package.metadata.some THEN Err("MissingOrders")
    ELSE IF ~m.package.metadata.v.orders.some THEN Err("MissingOrders")
    ELSE LET orders == m.package.metadata.v.orders.v
             toys == Join(MapToString(FilterMap(fmt, orders)), "\n")
         IN  IF \E i \in 1..Len(orders) : ~TryFrom(fmt, orders[i]).ok
             THEN Err("MissingOrders")
             ELSE IF toys = "" THEN Err("MissingOrders") ELSE Ok(toys)

parse_manifest(fmt, m) ==
    IF ~m.package.keywords.some \/ ~Contains(m.package.keywords.v, MagicKeyword)
    THEN Err("MissingMagicKeyword")
    ELSE IF ~m.package.metadata.some THEN Err("MissingOrders")
    ELSE IF ~m.package.metadata.v.orders.some THEN Err("MissingOrders")
    ELSE LET toys == Join(MapToString(FilterMap(fmt, m.package.metadata.v.orders.v)), "\n")
         IN  IF toys = "" THEN Err("MissingOrders") ELSE Ok(toys)

\* impl IntoResponse for ManifestParseError, and for Ok(String)
ErrorStatus(kind) ==
    CASE kind = "InvalidContentType" -> 415
      [] kind = "MissingMagicKeyword" -> 400
      [] kind = "InvalidManifest" -> 400
      [] kind = "MissingOrders" -> 204

ErrorText(kind) ==
    CASE kind = "InvalidContentType" -> ""
      [] kind = "InvalidManifest" -> "Invalid manifest"
      [] kind = "MissingMagicKeyword" -> "Magic keyword not provided"
      [] kind = "MissingOrders" -> ""

IntoResponse(result) ==
    IF result.ok THEN [status |-> 200, body |-> result.text]
    ELSE [status |-> ErrorStatus(result.err), body |-> ErrorText(result.err)]

(***************************************************************************)
(* Documents.  The tree a body denotes:                                    *)
(*   [package |-> [present, name, keywords |-> [k, v],                     *)
(*                 metadata |-> [present, orders |-> [k, v]]],             *)
(*    profile |-> "ok" | "bad"]                                            *)
(* keywords.k and orders.k are "absent", "seq" or "scalar" (a value that   *)
(* is not a sequence); profile = "bad" stands for a field outside the      *)
(* Manifest schema that the cargo manifest schema rejects, such as         *)
(* profile.release.incremental = "stupid".                                 *)
(***************************************************************************)
NoKeywords == [k |-> "absent", v |-> <<>>]
NoOrders == [k |-> "absent", v |-> <<>>]
NoMetadata == [present |-> FALSE, orders |-> NoOrders]

NoPackage == [present |-> FALSE, name |-> LitMissing, keywords |-> NoKeywords,
              metadata |-> NoMetadata]

\* a document without package: a workspace manifest, `[workspace]` alone
EmptyDoc == [package |-> NoPackage, profile |-> "ok"]

MapEntries(F(_), orders) == [k |-> orders.k, v |-> [i \in 1..Len(orders.v) |-> F(orders.v[i])]]

\* the value tree a parser builds from the text's document
ParseDoc(doc) ==
    [package |-> [present |-> doc.package.present,
                  name |-> ParseValue(doc.package.name),
                  keywords |-> doc.package.keywords,
                  metadata |-> [present |-> doc.package.metadata.present,
                                orders |-> MapEntries(ParseEntry, doc.package.metadata.orders)]],
     profile |-> doc.profile]

\* the document the TOML serializer writes for a value tree
PrintDoc(tree) ==
    [package |-> [present |-> tree.package.present,
                  name |-> PrintValue(tree.package.name),
                  keywords |-> tree.package.keywords,
                  metadata |-> [present |-> tree.package.metadata.present,
                                orders |-> MapEntries(PrintEntry, tree.package.metadata.orders)]],
     profile |-> tree.profile]

EntryHasNull(e) == e.k = "null" \/ e.item.k = "null" \/ e.quantity.k = "null"

HasNull(tree) ==
    \/ tree.package.name.k = "null"
    \/ \E i \in 1..Len(tree.package.metadata.orders.v) :
           EntryHasNull(tree.package.metadata.orders.v[i])

Fail(dflt) == [ok |-> FALSE, v |-> dflt]
Pass(v) == [ok |-> TRUE, v |-> v]

\* serde_yaml::from_str::<serde_yaml::Value>(&body)
YamlFromStr(body) ==
    IF body.syntax = "yaml" THEN Pass(ParseDoc(body.doc)) ELSE Fail(ParseDoc(EmptyDoc))

\* serde_json::from_str::<serde_json::Value>(&body)
JsonFromStr(body) ==
    IF body.syntax = "json" THEN Pass(ParseDoc(body.doc)) ELSE Fail(ParseDoc(EmptyDoc))

NoText == [syntax |-> "none", doc |-> EmptyDoc]

\* toml::to_string(&raw): TOML has no null, the serializer rejects a unit value
TomlToString(tree) ==
    IF HasNull(tree) THEN Fail(NoText)
    ELSE Pass([syntax |-> "toml", doc |-> PrintDoc(tree)])

\* what cargo_manifest's schema requires of the fields this model carries:
\* package is optional (a workspace manifest has none); inside it name is a
\* string and keywords, when present, a sequence of strings; metadata is
\* free-form
Conforms(tree) ==
    /\ tree.profile = "ok"
    /\ tree.package.present =>
          /\ tree.package.name.k = "str"
          /\ tree.package.keywords.k \in {"absent", "seq"}

\* cargo_manifest::Manifest::from_str(text).is_ok()
CargoManifestFromStr(text) ==
    /\ text.syntax = "toml"
    /\ Conforms(ParseDoc(text.doc))

None(dflt) == [some |-> FALSE, v |-> dflt]
Some(v) == [some |-> TRUE, v |-> v]

NoManifest == [package |-> [name |-> "", keywords |-> None(<<>>),
                            metadata |-> None([orders |-> None(<<>>)])]]

\* serde's derive on Manifest<T> / ManifestPackage<T> / ManifestPackageMetadata<T>:
\* package and package.name are required, unknown fields are ignored, an
\* Option field is None when absent
BindManifest(tree) ==
    [package |->
        [name |-> tree.package.name.s,
         keywords |-> IF tree.package.keywords.k = "seq"
                      THEN Some(tree.package.keywords.v) ELSE None(<<>>),
         metadata |-> IF tree.package.metadata.present
                      THEN Some([orders |-> IF tree.package.metadata.orders.k = "seq"
                                            THEN Some(tree.package.metadata.orders.v)
                                            ELSE None(<<>>)])
                      ELSE None([orders |-> None(<<>>)])]]

\* T = toml::Table binds tables only; T = serde_yaml::Value and
\* T = serde_json::Value bind every value
BindsAs(fmt, e) == fmt = "toml" => e.k = "table"

Binds(fmt, tree) ==
    /\ tree.package.present
    /\ tree.package.name.k = "str"
    /\ tree.package.keywords.k \in {"absent", "seq"}
    /\ tree.package.metadata.orders.k \in {"absent", "seq"}
    /\ \A i \in 1..Len(tree.package.metadata.orders.v) :
           BindsAs(fmt, tree.package.metadata.orders.v[i])

\* toml::from_str::<Manifest<Table>>(&body)
TomlFromStr(body) ==
    IF body.syntax = "toml" /\ Binds("toml", ParseDoc(body.doc))
    THEN Pass(BindManifest(ParseDoc(body.doc))) ELSE Fail(NoManifest)

\* serde_yaml::from_value::<Manifest<serde_yaml::Value>>(raw)
YamlFromValue(tree) ==
    IF Binds("yaml", tree) THEN Pass(BindManifest(tree)) ELSE Fail(NoManifest)

\* serde_json::from_value::<Manifest<serde_json::Value>>(raw)
JsonFromValue(tree) ==
    IF Binds("json", tree) THEN Pass(BindManifest(tree)) ELSE Fail(NoManifest)

(***************************************************************************)
(* The requests the model submits.                                         *)
(***************************************************************************)
Int5 == LitInt(FALSE, <<5, 0, 0, 0>>)
Int1 == LitInt(FALSE, <<1, 0, 0, 0>>)
IntMinus1 == LitInt(TRUE, <<1, 0, 0, 0>>)
IntTwo32Plus7 == LitInt(FALSE, <<7, 0, 1, 0>>)

Entries ==
    { LitTable(LitStr("Bike"), Int5),
      LitTable(LitStr(""), IntMinus1),
      LitTable(LitStr("Toy car"), IntTwo32Plus7),
      LitTable(LitMissing, Int1),
      LitTable(LitStr("Bike"), LitStr("five")),
      LitTable(LitStr("Bike"), LitFloat),
      LitScalar("int"),
      LitScalar("null") }

SeqsUpTo(S, n) == UNION { [1..m -> S] : m \in 0..n }

OrdersSet ==
    { NoOrders, [k |-> "scalar", v |-> <<>>] }
    \cup { [k |-> "seq", v |-> s] : s \in SeqsUpTo(Entries, MaxOrders) }

MetadataSet == { NoMetadata } \cup { [present |-> TRUE, orders |-> o] : o \in OrdersSet }

KeywordsSet ==
    { NoKeywords, [k |-> "scalar", v |-> <<>>] }
    \cup { [k |-> "seq", v |-> s] :
             s \in { <<>>, <<MagicKeyword>>, <<"christmas 2024">>,
                     <<"Christmas 2024 sale">>, <<"gift", MagicKeyword>> } }

\* one departure from a sound package at a time
PackageShapes ==
    { [name |-> LitStr("gift"), profile |-> "ok"],
      [name |-> LitStr("gift"), profile |-> "bad"],
      [name |-> LitMissing, profile |-> "ok"],
      [name |-> LitBool, profile |-> "ok"] }

Docs ==
    { EmptyDoc }
    \cup { [package |-> [present |-> TRUE, name |-> sh.name, keywords |-> kw, metadata |-> md],
            profile |-> sh.profile] :
             sh \in PackageShapes, kw \in KeywordsSet, md \in MetadataSet }

Formats == {"toml", "yaml", "json"}

\* a text is well-formed in one format or in none; TOML cannot write null
Bodies ==
    { NoText }
    \cup { b \in [syntax : Formats, doc : Docs] :
             b.syntax = "toml" => ~HasNull(ParseDoc(b.doc)) }

\* the Content-Type header: absent, present with bytes to_str() rejects,
\* or present as text
ContentTypes ==
    { [k |-> "absent", v |-> ""], [k |-> "opaque", v |-> ""] }
    \cup { [k |-> "text", v |-> s] :
             s \in { "application/toml", "application/yaml", "application/json",
                     "application/xml", "application/json; charset=utf-8",
                     "Application/JSON" } }

(***************************************************************************)
(* The handler.                                                            *)
(***************************************************************************)
NoResp == [status |-> 0, body |-> ""]
NoReq == [content_type |-> [k |-> "absent", v |-> ""], body |-> NoText]
NoConv == [fmt |-> "none", entry |-> LitScalar("null"), result |-> ToyErr]
NoCross == [doc |-> EmptyDoc, outcomes |-> <<>>]

Init ==
    /\ pc = "idle"
    /\ req = NoReq
    /\ raw = ParseDoc(EmptyDoc)
    /\ toml_string = NoText
    /\ manifest = NoManifest
    /\ resp = NoResp
    /\ steps = <<>>
    /\ conv = NoConv
    /\ cross = NoCross

\* the router hands a POST /5/manifest to the handler
Receive ==
    /\ pc = "idle"
    /\ \E h \in ContentTypes, b \in Bodies : req' = [content_type |-> h, body |-> b]
    /\ pc' = "dispatch"
    /\ UNCHANGED <<raw, toml_string, manifest, resp, steps, conv, cross>>

Respond(r) ==
    /\ resp' = r
    /\ pc' = "done"

Panic ==
    /\ resp' = NoResp
    /\ pc' = "panicked"

\* the match on the header text
ContentTypeFormatLoose(ct) ==
    CASE ct = "application/toml" -> "toml"
      [] ct = "application/yaml" -> "yaml"
      [] ct \in {"application/json", "application/json; charset=utf-8", "Application/JSON"} -> "json"
      [] OTHER -> "none"

ContentTypeFormat(ct) ==
    CASE ct = "application/toml" -> "toml"
      [] ct = "application/yaml" -> "yaml"
      [] ct = "application/json" -> "json"
      [] OTHER -> "none"

\* the format the request was dispatched to
Adapter == ContentTypeFormat(req.content_type.v)

\* manifest(): headers.get, to_str, match
Dispatch ==
    /\ pc = "dispatch"
    /\ steps' = Append(steps, "dispatch")
    /\ IF req.content_type.k # "text"
       THEN Respond([status |-> 400, body |-> "Missing Content Type"])
       ELSE LET fmt == ContentTypeFormat(req.content_type.v)
            IN  CASE fmt = "toml" -> pc' = "toml_check" /\ resp' = resp
                  [] fmt = "yaml" -> pc' = "yaml_parse" /\ resp' = resp
                  [] fmt = "json" -> pc' = "json_parse" /\ resp' = resp
                  [] OTHER -> Respond(IntoResponse(Err("InvalidContentType")))
    /\ UNCHANGED <<req, raw, toml_string, manifest, conv, cross>>

\* parse_toml: cargo_manifest::Manifest::from_str(&body).is_err()
TomlCheck ==
    /\ pc = "toml_check"
    /\ steps' = steps \o <<"parse", "check">>
    /\ IF ~CargoManifestFromStr(req.body)
       THEN Respond(IntoResponse(Err("InvalidManifest")))
       ELSE pc' = "toml_bind" /\ resp' = resp
    /\ UNCHANGED <<req, raw, toml_string, manifest, conv, cross>>

\* parse_toml: toml::from_str::<Manifest<Table>>(&body).unwrap()
TomlBind ==
    /\ pc = "toml_bind"
    /\ steps' = Append(steps, "bind")
    /\ LET r == TomlFromStr(req.body)
       IN  IF r.ok
           THEN manifest' = r.v /\ pc' = "parse_manifest" /\ resp' = resp
           ELSE manifest' = manifest /\ Panic
    /\ UNCHANGED <<req, raw, toml_string, conv, cross>>

\* parse_yaml: serde_yaml::from_str::<serde_yaml::Value>(&body).unwrap()
YamlParse ==
    /\ pc = "yaml_parse"
    /\ steps' = Append(steps, "parse")
    /\ LET r == YamlFromStr(req.body)
       IN  IF r.ok
           THEN raw' = r.v /\ pc' = "yaml_to_toml" /\ resp' = resp
           ELSE raw' = raw /\ Panic
    /\ UNCHANGED <<req, toml_string, manifest, conv, cross>>

\* parse_yaml: toml::to_string(&raw).map_err(|_| InvalidManifest)?
YamlToToml ==
    /\ pc = "yaml_to_toml"
    /\ steps' = Append(steps, "normalize")
    /\ LET r == TomlToString(raw)
       IN  IF r.ok
           THEN toml_string' = r.v /\ pc' = "yaml_bind" /\ resp' = resp
           ELSE toml_string' = toml_string /\ Respond(IntoResponse(Err("InvalidManifest")))
    /\ UNCHANGED <<req, raw, manifest, conv, cross>>

\* parse_yaml: serde_yaml::from_value::<Manifest<serde_yaml::Value>>(raw).unwrap()
YamlBind ==
    /\ pc = "yaml_bind"
    /\ steps' = Append(steps, "bind")
    /\ LET r == YamlFromValue(raw)
       IN  IF r.ok
           THEN manifest' = r.v /\ pc' = "yaml_check" /\ resp' = resp
           ELSE manifest' = manifest /\ Panic
    /\ UNCHANGED <<req, raw, toml_string, conv, cross>>

\* parse_yaml: cargo_manifest::Manifest::from_str(&toml_string).is_err()
YamlCheck ==
    /\ pc = "yaml_check"
    /\ steps' = Append(steps, "check")
    /\ IF ~CargoManifestFromStr(toml_string)
       THEN Respond(IntoResponse(Err("InvalidManifest")))
       ELSE pc' = "parse_manifest" /\ resp' = resp
    /\ UNCHANGED <<req, raw, toml_string, manifest, conv, cross>>

\* parse_json: serde_json::from_str::<serde_json::Value>(&body).map_err(..)?
JsonParse ==
    /\ pc = "json_parse"
    /\ steps' = Append(steps, "parse")
    /\ LET r == JsonFromStr(req.body)
       IN  IF r.ok
           THEN raw' = r.v /\ pc' = "json_to_toml" /\ resp' = resp
           ELSE raw' = raw /\ Respond(IntoResponse(Err("InvalidManifest")))
    /\ UNCHANGED <<req, toml_string, manifest, conv, cross>>

\* parse_json: toml::to_string(&raw).map_err(|_| InvalidManifest)?
JsonToToml ==
    /\ pc = "json_to_toml"
    /\ steps' = Append(steps, "normalize")
    /\ LET r == TomlToString(raw)
       IN  IF r.ok
           THEN toml_string' = r.v /\ pc' = "json_bind" /\ resp' = resp
           ELSE toml_string' = toml_string /\ Respond(IntoResponse(Err("InvalidManifest")))
    /\ UNCHANGED <<req, raw, manifest, conv, cross>>

\* parse_json: serde_json::from_value::<Manifest<serde_json::Value>>(raw).unwrap()
JsonBind ==
    /\ pc = "json_bind"
    /\ steps' = Append(steps, "bind")
    /\ LET r == JsonFromValue(raw)
       IN  IF r.ok
           THEN manifest' = r.v /\ pc' = "json_check" /\ resp' = resp
           ELSE manifest' = manifest /\ Panic
    /\ UNCHANGED <<req, raw, toml_string, conv, cross>>

\* parse_json: cargo_manifest::Manifest::from_str(&toml_string).is_err()
JsonCheck ==
    /\ pc = "json_check"
    /\ steps' = Append(steps, "check")
    /\ IF ~CargoManifestFromStr(toml_string)
       THEN Respond(IntoResponse(Err("InvalidManifest")))
       ELSE pc' = "parse_manifest" /\ resp' = resp
    /\ UNCHANGED <<req, raw, toml_string, manifest, conv, cross>>

\* the tail call parse_manifest(manifest) and .into_response()
ParseManifest ==
    /\ pc = "parse_manifest"
    /\ steps' = Append(steps, "parse_manifest")
    /\ Respond(IntoResponse(parse_manifest(Adapter, manifest)))
    /\ UNCHANGED <<req, raw, toml_string, manifest, conv, cross>>

\* the request is over (answered, or its task unwound by the panic); all of
\* its state is dropped and the server takes the next one
Finish ==
    /\ pc \in {"done", "panicked"}
    /\ pc' = "idle"
    /\ req' = NoReq
    /\ raw' = ParseDoc(EmptyDoc)
    /\ toml_string' = NoText
    /\ manifest' = NoManifest
    /\ resp' = NoResp
    /\ steps' = <<>>
    /\ UNCHANGED <<conv, cross>>

Next ==
    \/ Receive
    \/ Dispatch
    \/ TomlCheck
    \/ TomlBind
    \/ YamlParse
    \/ YamlToToml
    \/ YamlBind
    \/ YamlCheck
    \/ JsonParse
    \/ JsonToToml
    \/ JsonBind
    \/ JsonCheck
    \/ ParseManifest
    \/ Finish

Spec == Init /\ [][Next]_vars

(***************************************************************************)
(* The conversions on their own: one order entry of a parsed document is   *)
(* handed to the format's TryFrom.                                         *)
(***************************************************************************)
Quantities ==
    { LitInt(FALSE, <<0, 0, 0, 0>>),
      Int5,
      IntMinus1,
      LitInt(FALSE, <<0, 1, 0, 0>>),
      LitInt(FALSE, <<Base - 1, Base - 1, 0, 0>>),
      LitInt(FALSE, <<0, 0, 1, 0>>),
      IntTwo32Plus7,
      LitInt(TRUE, <<0, 0, 1, 0>>),
      LitInt(TRUE, <<0, Base \div 2, 0, 0>>),
      LitInt(TRUE, <<Base - 1, Base - 1, 0, 0>>),
      LitInt(FALSE, <<Base - 1, Base - 1, Base - 1, Base \div 2 - 1>>),
      LitInt(TRUE, <<0, 0, 0, Base \div 2>>) }

ConvItems == { LitMissing, LitNull, LitBool, Int5, LitStr(""), LitStr("Bike") }

ConvQuantities == { LitMissing, LitNull, LitBool, LitFloat, LitStr("5") } \cup Quantities

ConvEntries ==
    { LitTable(i, q) : i \in ConvItems, q \in ConvQuantities }
    \cup { LitScalar("int"), LitScalar("str"), LitScalar("null") }

\* ValidToy::try_from(o) for o: toml::Table
ConvertToml ==
    /\ \E e \in ConvEntries :
          /\ e.k = "table"
          /\ ~EntryHasNull(e)
          /\ conv' = [fmt |-> "toml", entry |-> e, result |-> TryFromTable(ParseEntry(e))]
    /\ UNCHANGED <<pc, req, raw, toml_string, manifest, resp, steps, cross>>

\* ValidToy::try_from(o) for o: serde_yaml::Value
ConvertYaml ==
    /\ \E e \in ConvEntries :
          conv' = [fmt |-> "yaml", entry |-> e, result |-> TryFromYaml(ParseEntry(e))]
    /\ UNCHANGED <<pc, req, raw, toml_string, manifest, resp, steps, cross>>

\* ValidToy::try_from(o) for o: serde_json::Value
ConvertJson ==
    /\ \E e \in ConvEntries :
          conv' = [fmt |-> "json", entry |-> e, result |-> TryFromJson(ParseEntry(e))]
    /\ UNCHANGED <<pc, req, raw, toml_string, manifest, resp, steps, cross>>

NextConv == ConvertToml \/ ConvertYaml \/ ConvertJson

SpecConv == Init /\ [][NextConv]_vars

(***************************************************************************)
(* One logical document submitted three times, written in TOML, in YAML    *)
(* and in JSON under the matching content type; the outcome of each        *)
(* request is kept for comparison.                                         *)
(***************************************************************************)
FormatOrder == <<"toml", "yaml", "json">>

MediaType(fmt) ==
    CASE fmt = "toml" -> "application/toml"
      [] fmt = "yaml" -> "application/yaml"
      [] fmt = "json" -> "application/json"

\* the documents all three formats can write
CommonDocs == { d \in Docs : ~HasNull(ParseDoc(d)) }

SubmitFirst ==
    /\ pc = "idle"
    /\ cross.outcomes = <<>>
    /\ \E d \in CommonDocs :
          /\ cross' = [doc |-> d, outcomes |-> <<>>]
          /\ req' = [content_type |-> [k |-> "text", v |-> MediaType(FormatOrder[1])],
                     body |-> [syntax |-> FormatOrder[1], doc |-> d]]
    /\ pc' = "dispatch"
    /\ UNCHANGED <<raw, toml_string, manifest, resp, steps, conv>>

SubmitNext ==
    /\ pc = "idle"
    /\ Len(cross.outcomes) \in 1..2
    /\ LET fmt == FormatOrder[Len(cross.outcomes) + 1]
       IN  req' = [content_type |-> [k |-> "text", v |-> MediaType(fmt)],
                   body |-> [syntax |-> fmt, doc |-> cross.doc]]
    /\ pc' = "dispatch"
    /\ UNCHANGED <<raw, toml_string, manifest, resp, steps, conv, cross>>

\* the client sees the response, or the connection closed by the panic
Collect ==
    /\ pc \in {"done", "panicked"}
    /\ cross' = [cross EXCEPT !.outcomes = Append(@, [pc |-> pc, resp |-> resp])]
    /\ pc' = "idle"
    /\ req' = NoReq
    /\ raw' = ParseDoc(EmptyDoc)
    /\ toml_string' = NoText
    /\ manifest' = NoManifest
    /\ resp' = NoResp
    /\ steps' = <<>>
    /\ UNCHANGED conv

NextCross ==
    \/ SubmitFirst
    \/ SubmitNext
    \/ Dispatch
    \/ TomlCheck
    \/ TomlBind
    \/ YamlParse
    \/ YamlToToml
    \/ YamlBind
    \/ YamlCheck
    \/ JsonParse
    \/ JsonToToml
    \/ JsonBind
    \/ JsonCheck
    \/ ParseManifest
    \/ Collect

SpecCross == Init /\ [][NextCross]_vars

(***************************************************************************)
(* Vocabulary of the properties, stated on the request and the response.   *)
(***************************************************************************)
Ended == pc \in {"done", "panicked"}

MissingContentTypeResp == [status |-> 400, body |-> "Missing Content Type"]
InvalidContentTypeResp == [status |-> 415, body |-> ""]
InvalidManifestResp == [status |-> 400, body |-> "Invalid manifest"]
MissingMagicKeywordResp == [status |-> 400, body |-> "Magic keyword not provided"]
MissingOrdersResp == [status |-> 204, body |-> ""]

Recognized == {"application/toml", "application/yaml", "application/json"}

\* the format a recognized header names
NamedFormat ==
    IF req.content_type.v = "application/toml" THEN "toml"
    ELSE IF req.content_type.v = "application/yaml" THEN "yaml"
    ELSE "json"

ToAdapter == req.content_type.k = "text" /\ req.content_type.v \in Recognized

TheDoc == req.body.doc
TheOrders == TheDoc.package.metadata.orders

\* the three ways a body is not a manifest of format fmt
FailsParse(fmt, body) == body.syntax # fmt

FailsConformance(fmt, body) ==
    /\ body.syntax = fmt
    /\ \/ body.doc.profile = "bad"
       \/ body.doc.package.present /\ body.doc.package.name.k # "str"
       \/ body.doc.package.present /\ body.doc.package.keywords.k = "scalar"
       \/ \E i \in 1..Len(body.doc.package.metadata.orders.v) :
              LET e == body.doc.package.metadata.orders.v[i]
              IN  "null" \in {e.k, e.item.k, e.quantity.k}

FailsBind(fmt, body) ==
    /\ body.syntax = fmt
    /\ \/ ~body.doc.package.present
       \/ body.doc.package.name.k # "str"
       \/ body.doc.package.keywords.k = "scalar"
       \/ body.doc.package.metadata.orders.k = "scalar"
       \/ /\ fmt = "toml"
          /\ \E i \in 1..Len(body.doc.package.metadata.orders.v) :
                 body.doc.package.metadata.orders.v[i].k # "table"

NotAManifest(fmt, body) ==
    FailsParse(fmt, body) \/ FailsConformance(fmt, body) \/ FailsBind(fmt, body)

\* the request reaches an adapter with a body that is a manifest of its format
IsManifest == ToAdapter /\ ~NotAManifest(NamedFormat, req.body)

CarriesMagic ==
    /\ TheDoc.package.keywords.k = "seq"
    /\ \E i \in 1..Len(TheDoc.package.keywords.v) :
           TheDoc.package.keywords.v[i] = "Christmas 2024"

Convertible(e) == e.k = "table" /\ e.item.k = "str" /\ e.quantity.k = "int"

\* q mod 2^32 of the literal (neg, mag), by arithmetic on its low 32 bits
Mod2p32(neg, mag) ==
    IF ~neg \/ (mag[1] = 0 /\ mag[2] = 0) THEN <<mag[1], mag[2]>>
    ELSE IF mag[1] = 0 THEN <<0, Base - mag[2]>>
    ELSE <<Base - mag[1], Base - 1 - mag[2]>>

\* the decimal text of q mod 2^32 for the quantities the requests use
QuantityText(q) ==
    CASE q = Int5 -> "5"
      [] q = Int1 -> "1"
      [] q = IntMinus1 -> "4294967295"
      [] q = IntTwo32Plus7 -> "7"

RECURSIVE ExpectedLines(_)
ExpectedLines(orders) ==
    IF orders = <<>> THEN <<>>
    ELSE (IF Convertible(Head(orders))
          THEN <<Head(orders).item.s \o ": " \o QuantityText(Head(orders).quantity)>>
          ELSE <<>>) \o ExpectedLines(Tail(orders))

ExpectedBody(lines) ==
    IF Len(lines) = 0 THEN ""
    ELSE IF Len(lines) = 1 THEN lines[1]
    ELSE IF Len(lines) = 2 THEN lines[1] \o "\n" \o lines[2]
    ELSE lines[1] \o "\n" \o lines[2] \o "\n" \o lines[3]

SomeConvertible == \E i \in 1..Len(TheOrders.v) : Convertible(TheOrders.v[i])
SomeUnconvertible == \E i \in 1..Len(TheOrders.v) : ~Convertible(TheOrders.v[i])

(***************************************************************************)
(* Properties.                                                             *)
(***************************************************************************)

\* C1: every request ends in one of the six tabulated outcomes; no input
\* drives the handler into a panic instead of a response.
C1_AlwaysAResponse ==
    /\ pc # "panicked"
    /\ pc = "done" =>
          \/ resp \in { MissingContentTypeResp, InvalidContentTypeResp, InvalidManifestResp,
                        MissingMagicKeywordResp, MissingOrdersResp }
          \/ resp.status = 200

\* C2: under each recognized content type, a body that fails at the parse
\* step, at the conformance check or at the schema bind is answered with
\* 400 "Invalid manifest".
C2_InvalidManifestIs400 ==
    (Ended /\ ToAdapter /\ NotAManifest(NamedFormat, req.body))
        => (pc = "done" /\ resp = InvalidManifestResp)

\* C3: in every adapter the steps run in the order parse, conformance
\* check, schema bind; the bind is never attempted before the check passed.
C3_CheckBeforeBind ==
    \A i \in 1..Len(steps) :
        /\ steps[i] = "bind" => \E j \in 1..(i - 1) : steps[j] = "check"
        /\ steps[i] = "check" => \E j \in 1..(i - 1) : steps[j] = "parse"

C5_FilterAnyEntry ==
    (/\ Ended
     /\ ToAdapter
     /\ req.body.syntax = NamedFormat
     /\ TheDoc.package.present
     /\ TheDoc.package.name.k = "str"
     /\ TheDoc.profile = "ok"
     /\ CarriesMagic
     /\ TheOrders.k = "seq"
     /\ SomeConvertible)
        => (/\ pc = "done"
            /\ resp = [status |-> 200, body |-> ExpectedBody(ExpectedLines(TheOrders.v))])

\* C5, amended: the same for a manifest, that is a document that passed
\* normalisation, the conformance check and the schema bind: in TOML every
\* entry of orders is a table, in YAML and JSON no entry is or holds null.
C5_FilterBoundEntries ==
    (Ended /\ IsManifest /\ CarriesMagic /\ TheOrders.k = "seq" /\ SomeConvertible)
        => (/\ pc = "done"
            /\ resp = [status |-> 200, body |-> ExpectedBody(ExpectedLines(TheOrders.v))])

C5_Witness ==
    /\ pc = "done"
    /\ IsManifest
    /\ CarriesMagic
    /\ Len(TheOrders.v) = MaxOrders
    /\ Convertible(TheOrders.v[1])
    /\ ~Convertible(TheOrders.v[2])
    /\ resp.status = 200
    /\ resp.body = ExpectedBody(ExpectedLines(TheOrders.v))

C7_SameOutcomeInAllFormats ==
    Len(cross.outcomes) = 3 =>
        /\ cross.outcomes[1].pc = "done"
        /\ cross.outcomes[2] = cross.outcomes[1]
        /\ cross.outcomes[3] = cross.outcomes[1]

\* C8: a Content-Type that is absent or not text is answered with 400
\* "Missing Content Type", one that is not exactly one of the three media
\* types with 415 and an empty body, in both cases before any step looks at
\* the body.
C8_DispatchBeforeBody ==
    Ended =>
        /\ req.content_type.k # "text"
              => (pc = "done" /\ resp = MissingContentTypeResp /\ steps = <<"dispatch">>)
        /\ (req.content_type.k = "text" /\ req.content_type.v \notin Recognized)
              => (pc = "done" /\ resp = InvalidContentTypeResp /\ steps = <<"dispatch">>)

C8_Witness ==
    /\ pc = "done"
    /\ req.content_type = [k |-> "text", v |-> "application/json; charset=utf-8"]
    /\ req.body.syntax = "json"
    /\ ~NotAManifest("json", req.body)
    /\ CarriesMagic
    /\ SomeConvertible
    /\ resp = InvalidContentTypeResp

\* the answer of the earliest error kind whose trigger the request meets
FirstMatch ==
    IF req.content_type.k # "text" THEN MissingContentTypeResp
    ELSE IF req.content_type.v \notin Recognized THEN InvalidContentTypeResp
    ELSE IF NotAManifest(NamedFormat, req.body) THEN InvalidManifestResp
    ELSE IF ~CarriesMagic THEN MissingMagicKeywordResp
    ELSE IF ~TheDoc.package.metadata.present \/ TheOrders.k = "absent" \/ ~SomeConvertible
         THEN MissingOrdersResp
    ELSE [status |-> 200, body |-> resp.body]

\* C9: the five error kinds are resolved first-match in the order
\* MissingContentType, InvalidContentType, InvalidManifest,
\* MissingMagicKeyword, MissingOrders: a request that meets several triggers
\* is answered with the earliest kind, in every format.
C9_FirstMatchOrder ==
    Ended => (pc = "done" /\ resp = FirstMatch)

\* C10: an entry whose item is a string and whose quantity is a signed
\* 64-bit integer q always converts, to quantity q mod 2^32; any other
\* entry fails conversion.
C10_QuantityWraps ==
    conv.fmt # "none" =>
        IF Convertible(conv.entry)
        THEN /\ conv.result.ok
             /\ conv.result.toy.item = conv.entry.item.s
             /\ conv.result.toy.quantity = Mod2p32(conv.entry.quantity.neg, conv.entry.quantity.mag)
        ELSE ~conv.result.ok

C10_Witness ==
    /\ conv.fmt = "toml"
    /\ conv.entry.quantity = LitInt(TRUE, <<0, 0, 0, Base \div 2>>)
    /\ conv.entry.item = LitStr("Bike")
    /\ conv.result = ToyOk("Bike", <<0, 0>>)

====
